---- MODULE Spec2Model ----
(***************************************************************************)
(* Model of py/private/py_venv/link.py: the driver's link step followed by *)
(* colocate_pyi_stubs, over an explicit POSIX-like filesystem.             *)
(*                                                                         *)
(* A path is a sequence of component names from "/" (<<>> is "/").  The    *)
(* filesystem fs is a function from the paths of the entries that exist    *)
(* to entries: directories, regular files and symlinks with their target.  *)
(***************************************************************************)
EXTENDS Integers, Sequences, FiniteSets, TLC

VARIABLES fs, fsStart, pthText, pc, again, site_dir, lineNo, pth_roots,
          rootIdx, walked, pyi_sources, entryIdx, rootPos, attempts

\* fs            the filesystem
\* fsStart       the filesystem as the current run of colocate_pyi_stubs
\*               found it
\* pthText       the lines of _aspect.pth
\* pc            where the program is: "link", "glob", "pth", "lines",
\*               "index", "synth"; "done" after a normal return, "raised"
\*               after an uncaught exception of colocate_pyi_stubs,
\*               "link_failed" after one of the link step
\* again         whether this is the second run of colocate_pyi_stubs
\* site_dir, pth_roots, pyi_sources   the locals of those names
\* lineNo        the next line of the file to read
\* rootIdx, walked   the root being walked and the stubs already yielded
\* entryIdx, rootPos the position of the two synthesis loops
\* attempts      the os.symlink calls of the run, in order: root, relative
\*               path, whether the place was taken, whether it succeeded
vars == <<fs, fsStart, pthText, pc, again, site_dir, lineNo, pth_roots,
          rootIdx, walked, pyi_sources, entryIdx, rootPos, attempts>>

\* ------------------------------------------------------------- bounds
\* Symlink hops followed during one path resolution before ELOOP.
MaxHops == 4

\* ------------------------------------------------------- filesystem
DirEntry == [kind |-> "dir", abs |-> FALSE, target |-> <<>>]
FileEntry == [kind |-> "file", abs |-> FALSE, target |-> <<>>]
RelLink(t) == [kind |-> "link", abs |-> FALSE, target |-> t]
AbsLink(t) == [kind |-> "link", abs |-> TRUE, target |-> t]

NoEnt == [ok |-> FALSE, path |-> <<>>]
Found(p) == [ok |-> TRUE, path |-> p]

Parent(p) == IF p = <<>> THEN <<>> ELSE SubSeq(p, 1, Len(p) - 1)
Basename(p) == p[Len(p)]

\* Kernel path walk from directory cur over the components rest.  follow
\* says whether a symlink in the last position is followed (stat) or
\* returned as it is (lstat).
RECURSIVE Walk(_, _, _, _, _)
Walk(f, cur, rest, hops, follow) ==
    IF rest = <<>> THEN Found(cur)
    ELSE LET c == Head(rest)
             t == Tail(rest)
             p == Append(cur, c)
         IN IF c = ".." THEN Walk(f, Parent(cur), t, hops, follow)
            ELSE IF c = "." THEN Walk(f, cur, t, hops, follow)
            ELSE IF p \notin DOMAIN f THEN NoEnt
            ELSE IF f[p].kind = "dir" THEN Walk(f, p, t, hops, follow)
            ELSE IF f[p].kind = "file" THEN (IF t = <<>> THEN Found(p) ELSE NoEnt)
            ELSE IF t = <<>> /\ ~follow THEN Found(p)
            ELSE IF hops = 0 THEN NoEnt
            ELSE Walk(f, IF f[p].abs THEN <<>> ELSE cur, f[p].target \o t,
                      hops - 1, follow)

Stat(f, path) == Walk(f, <<>>, path, MaxHops, TRUE)
LStat(f, path) == Walk(f, <<>>, path, MaxHops, FALSE)

\* os.path.exists / isfile / isdir follow symlinks; lexists / islink do not.
Exists(f, path) == Stat(f, path).ok
IsFile(f, path) == Stat(f, path).ok /\ f[Stat(f, path).path].kind = "file"
IsDir(f, path) == Stat(f, path).ok /\ f[Stat(f, path).path].kind = "dir"
LExists(f, path) == LStat(f, path).ok
IsLink(f, path) == LStat(f, path).ok /\ f[LStat(f, path).path].kind = "link"

\* The place an entry named by path lives at: the resolved parent directory
\* plus the last component.  NoEnt when the parent is not a directory.
Place(f, path) ==
    IF path = <<>> THEN Found(<<>>)
    ELSE IF IsDir(f, Parent(path))
         THEN Found(Append(Stat(f, Parent(path)).path, Basename(path)))
         ELSE NoEnt

Children(f, d) == {p \in DOMAIN f : Len(p) = Len(d) + 1 /\ Parent(p) = d}

\* os.symlink(target, path): the new filesystem (the caller checks that the
\* place is free).
Symlink(f, entry, path) == (Place(f, path).path :> entry) @@ f

\* Removal of the entry at a place.
Remove(f, p) == [q \in DOMAIN f \ {p} |-> f[q]]

\* ------------------------------------------------------ path strings
\* The text of a line or path is a sequence of lexemes: " " is a whitespace
\* character, "#" the hash sign, "/" the separator, and any other lexeme is
\* the text between two separators (a component name, or comment text).

\* str.strip()
RECURSIVE LStrip(_)
LStrip(s) == IF s # <<>> /\ Head(s) = " " THEN LStrip(Tail(s)) ELSE s
RECURSIVE RStrip(_)
RStrip(s) ==
    IF s # <<>> /\ s[Len(s)] = " " THEN RStrip(SubSeq(s, 1, Len(s) - 1)) ELSE s
Strip(s) == LStrip(RStrip(s))

\* line.startswith("#")
StartsWithHash(s) == s # <<>> /\ Head(s) = "#"

\* os.path.join(dir, text): an absolute second argument discards the first.
\* Separators are dropped; the empty components that repeated or trailing
\* separators leave are the ones normpath removes.
IsSep(x) == x = "/"
NotSep(x) == x # "/"
Join(dir, text) ==
    IF text # <<>> /\ IsSep(Head(text))
    THEN SelectSeq(text, NotSep)
    ELSE dir \o SelectSeq(text, NotSep)

\* os.path.normpath of an absolute path: lexical, no symlink is looked at.
RECURSIVE NormFrom(_, _)
NormFrom(acc, rest) ==
    IF rest = <<>> THEN acc
    ELSE IF Head(rest) = "." THEN NormFrom(acc, Tail(rest))
    ELSE IF Head(rest) = ".." THEN NormFrom(Parent(acc), Tail(rest))
    ELSE NormFrom(Append(acc, Head(rest)), Tail(rest))
Normpath(p) == NormFrom(<<>>, p)

\* os.path.relpath(path, start) for absolute normalised paths: lexical.
RECURSIVE CommonLen(_, _)
CommonLen(a, b) ==
    IF a = <<>> \/ b = <<>> \/ Head(a) # Head(b) THEN 0
    ELSE 1 + CommonLen(Tail(a), Tail(b))
Relpath(path, start) ==
    LET i == CommonLen(path, start)
        ups == [n \in 1..(Len(start) - i) |-> ".."]
        r == ups \o SubSeq(path, i + 1, Len(path))
    IN IF r = <<>> THEN <<".">> ELSE r

\* fname.endswith(".pyi"), and rel_pyi[:-1], on the names of the model.
PyOf == [n \in {"x.pyi", "y.pyi"} |-> IF n = "x.pyi" THEN "x.py" ELSE "y.py"]
EndsWithPyi(name) == name \in DOMAIN PyOf
ChopLast(rel) == Append(Parent(rel), PyOf[Basename(rel)])

\* ------------------------------------------------------------ os.walk
\* Non-directory entries below the directory at place d, as paths relative
\* to the walked top.  An entry is a directory when it is one after
\* following symlinks; the walk descends only into real directories.
RECURSIVE Listing(_, _, _)
Listing(f, d, prefix) ==
    {Append(prefix, Basename(p)) : p \in {q \in Children(f, d) : ~IsDir(f, q)}}
    \cup UNION {Listing(f, p, Append(prefix, Basename(p))) :
                  p \in {q \in Children(f, d) : f[q].kind = "dir"}}

WalkFiles(f, root) ==
    IF IsDir(f, root) THEN Listing(f, Stat(f, root).path, <<>>) ELSE {}

\* The relative paths the index-build loop sees under root.
Stubs(f, root) == {rel \in WalkFiles(f, root) : EndsWithPyi(Basename(rel))}

IsPrefix(d, rel) == Len(d) <= Len(rel) /\ SubSeq(rel, 1, Len(d)) = d
DirsAbove(rel) == {SubSeq(rel, 1, n) : n \in 1..(Len(rel) - 1)}
\* os.walk is top-down and depth-first: a directory's own files come before
\* those of its subdirectories, and a subdirectory is finished before its
\* sibling is entered.  Sibling order is the directory's listing order,
\* which is arbitrary.
WalkMayYield(all, done, rel) ==
    /\ rel \in all \ done
    /\ \A u \in all \ done : ~(Len(u) < Len(rel) /\ IsPrefix(Parent(u), rel))
    /\ \A w \in done : \A d \in DirsAbove(w) :
          (\E u \in all \ done : IsPrefix(d, u)) => IsPrefix(d, rel)

\* ------------------------------------------------------------ layout
\* VIRTUAL_ENV, the driver's destination path, and the names glob matches.
Home == <<"v">>
Dest == <<"w", "venv">>
MatchesPython(name) == name \in {"python3"}

\* glob.glob(join(home, "lib", "python*", "site-packages"))
Glob(f, home) ==
    LET lib == Append(home, "lib")
        vers == IF IsDir(f, lib)
                THEN {Basename(q) : q \in {c \in Children(f, Stat(f, lib).path) :
                                             MatchesPython(Basename(c)) /\ IsDir(f, c)}}
                ELSE {}
    IN {p \in {lib \o <<n, "site-packages">> : n \in vers} : LExists(f, p)}

\* --------------------------------------------------- the driver's link
\* dest.exists() and dest.is_symlink() and dest.readlink() == Path(home)
LinkUpToDate(f) ==
    Exists(f, Dest) /\ IsLink(f, Dest) /\ f[LStat(f, Dest).path] = AbsLink(Home)

\* dest.unlink(): a directory cannot be unlinked (IsADirectoryError, which
\* the except clause for FileNotFoundError does not catch).
UnlinkRaises(f) == LExists(f, Dest) /\ f[LStat(f, Dest).path].kind = "dir"

\* The link step: the filesystem it leaves, and whether it raised.
DriverLink(f) ==
    IF LinkUpToDate(f) THEN [raised |-> FALSE, fs |-> f]
    ELSE IF UnlinkRaises(f) THEN [raised |-> TRUE, fs |-> f]
    ELSE LET g == IF LExists(f, Dest) THEN Remove(f, LStat(f, Dest).path) ELSE f
         IN IF Place(g, Dest).ok
            THEN [raised |-> FALSE, fs |-> Symlink(g, AbsLink(Home), Dest)]
            ELSE [raised |-> TRUE, fs |-> g]

\* ------------------------------------------------ colocate_pyi_stubs
\* if not site_dirs: return
NoSiteDirs(sds) == sds = {}

\* The early return for a missing .pth file left out.
PthNeverMissing(f, pth_file) == FALSE

\* if not os.path.isfile(pth_file): return
PthMissing(f, pth_file) == ~IsFile(f, pth_file)

\* if not line or line.startswith("#"): continue
SkipLine(line) == line = <<>> \/ StartsWithHash(line)

\* os.path.exists in the place of os.path.isdir.
KeepRootIfExists(f, resolved) == Exists(f, resolved)

\* if os.path.isdir(resolved)
KeepRoot(f, resolved) == IsDir(f, resolved)

\* pth_roots.append(resolved)
AddRoot(roots, resolved) == Append(roots, resolved)

\* One iteration of the loop over the lines of the .pth file.
ReadLine(f, sd, roots, raw) ==
    LET line == Strip(raw)
    IN IF SkipLine(line) THEN roots
       ELSE LET resolved == Normpath(Join(sd, line))
            IN IF KeepRoot(f, resolved) THEN AddRoot(roots, resolved) ELSE roots

\* if not pth_roots: return
NoRoots(roots) == roots = <<>>

\* pyi_sources is an insertion-ordered dict: a sequence of (rel, abs) pairs.
HasKey(idx, rel) == \E i \in 1..Len(idx) : idx[i].rel = rel

\* A dict store that replaces the value of a key already present.
SetOverwrite(idx, rel, abs) ==
    IF HasKey(idx, rel)
    THEN [i \in 1..Len(idx) |->
            IF idx[i].rel = rel THEN [rel |-> rel, abs |-> abs] ELSE idx[i]]
    ELSE Append(idx, [rel |-> rel, abs |-> abs])

\* pyi_sources.setdefault(rel_path, abs_path)
SetDefault(idx, rel, abs) ==
    IF HasKey(idx, rel) THEN idx ELSE Append(idx, [rel |-> rel, abs |-> abs])

\* The body of the innermost index-build loop for the stub the walk yields
\* at rel below root.
IndexOne(idx, root, rel) ==
    LET abs_path == root \o rel
        rel_path == Relpath(abs_path, root)
    IN SetDefault(idx, rel_path, abs_path)

\* The test for the sibling source file left out.
NeedsStubAnywhere(f, py_in_root, pyi_in_root) == ~Exists(f, pyi_in_root)

\* if os.path.isfile(py_in_root) and not os.path.exists(pyi_in_root)
NeedsStub(f, py_in_root, pyi_in_root) ==
    IsFile(f, py_in_root) /\ ~Exists(f, pyi_in_root)

\* rel_link = os.path.relpath(pyi_abs, os.path.dirname(pyi_in_root))
RelLinkFor(pyi_abs, pyi_in_root) == Relpath(pyi_abs, Parent(pyi_in_root))

\* A forced link (ln -sf) replaces what is at the place.
SymlinkForced(f, path) == ~Place(f, path).ok

\* os.symlink fails when the place is taken (FileExistsError) or its
\* directory is missing.
SymlinkFails(f, path) == ~Place(f, path).ok \/ LExists(f, path)

\* The exception swallowed and the loop continued.
AfterErrorContinue(continue) == continue

\* An exception of os.symlink is not caught: the run ends there.
AfterError(continue) == "raised"

\* ------------------------------------------------------------ actions
LinkStep ==
    /\ pc = "link"
    /\ fs' = DriverLink(fs).fs
    /\ fsStart' = fs'
    /\ pc' = IF DriverLink(fs).raised THEN "link_failed" ELSE "glob"
    /\ UNCHANGED <<pthText, again, site_dir, lineNo, pth_roots, rootIdx,
                   walked, pyi_sources, entryIdx, rootPos, attempts>>

GlobStep ==
    /\ pc = "glob"
    /\ LET sds == Glob(fs, Home)
       IN IF NoSiteDirs(sds) THEN pc' = "done" /\ site_dir' = site_dir
          ELSE IF sds = {} THEN pc' = "raised" /\ site_dir' = site_dir
          ELSE pc' = "pth" /\ site_dir' \in sds
    /\ UNCHANGED <<fs, fsStart, pthText, again, lineNo, pth_roots, rootIdx,
                   walked, pyi_sources, entryIdx, rootPos, attempts>>

PthStep ==
    /\ pc = "pth"
    /\ LET pth_file == Append(site_dir, "_aspect.pth")
       IN pc' = IF PthMissing(fs, pth_file) THEN "done"
                ELSE IF ~IsFile(fs, pth_file) THEN "raised"
                ELSE "lines"
    /\ UNCHANGED <<fs, fsStart, pthText, again, site_dir, lineNo, pth_roots,
                   rootIdx, walked, pyi_sources, entryIdx, rootPos, attempts>>

LineStep ==
    /\ pc = "lines"
    /\ IF lineNo <= Len(pthText)
       THEN /\ pth_roots' = ReadLine(fs, site_dir, pth_roots, pthText[lineNo])
            /\ lineNo' = lineNo + 1
            /\ pc' = pc
       ELSE /\ pc' = IF NoRoots(pth_roots) THEN "done" ELSE "index"
            /\ UNCHANGED <<pth_roots, lineNo>>
    /\ UNCHANGED <<fs, fsStart, pthText, again, site_dir, rootIdx, walked,
                   pyi_sources, entryIdx, rootPos, attempts>>

IndexStep ==
    /\ pc = "index"
    /\ IF rootIdx > Len(pth_roots)
       THEN pc' = "synth" /\ UNCHANGED <<rootIdx, walked, pyi_sources>>
       ELSE LET root == pth_roots[rootIdx]
                all == Stubs(fs, root)
            IN IF all \subseteq walked
               THEN /\ rootIdx' = rootIdx + 1
                    /\ walked' = {}
                    /\ UNCHANGED <<pc, pyi_sources>>
               ELSE \E rel \in all :
                      /\ WalkMayYield(all, walked, rel)
                      /\ pyi_sources' = IndexOne(pyi_sources, root, rel)
                      /\ walked' = walked \cup {rel}
                      /\ UNCHANGED <<pc, rootIdx>>
    /\ UNCHANGED <<fs, fsStart, pthText, again, site_dir, lineNo, pth_roots,
                   entryIdx, rootPos, attempts>>

SynthStep ==
    /\ pc = "synth"
    /\ IF entryIdx > Len(pyi_sources)
       THEN pc' = "done" /\ UNCHANGED <<fs, entryIdx, rootPos, attempts>>
       ELSE LET rel_pyi == pyi_sources[entryIdx].rel
                pyi_abs == pyi_sources[entryIdx].abs
                root == pth_roots[rootPos]
                py_in_root == root \o ChopLast(rel_pyi)
                pyi_in_root == root \o rel_pyi
                last == rootPos = Len(pth_roots)
                advance == /\ entryIdx' = IF last THEN entryIdx + 1 ELSE entryIdx
                           /\ rootPos' = IF last THEN 1 ELSE rootPos + 1
                try(ok) == [root |-> root, rel |-> rel_pyi, ok |-> ok,
                            taken |-> LExists(fs, pyi_in_root)]
            IN IF NeedsStub(fs, py_in_root, pyi_in_root)
               THEN \E fault \in BOOLEAN :
                      IF fault \/ SymlinkFails(fs, pyi_in_root)
                      THEN /\ attempts' = Append(attempts, try(FALSE))
                           /\ pc' = AfterError(pc)
                           /\ IF pc' = pc THEN advance
                              ELSE UNCHANGED <<entryIdx, rootPos>>
                           /\ fs' = fs
                      ELSE /\ attempts' = Append(attempts, try(TRUE))
                           /\ fs' = Symlink(fs, RelLink(RelLinkFor(pyi_abs, pyi_in_root)),
                                            pyi_in_root)
                           /\ advance
                           /\ pc' = pc
               ELSE advance /\ UNCHANGED <<fs, pc, attempts>>
    /\ UNCHANGED <<fsStart, pthText, again, site_dir, lineNo, pth_roots,
                   rootIdx, walked, pyi_sources>>

\* colocate_pyi_stubs is called once more on the filesystem its first run
\* left; again says that this is the second run.
Rerun ==
    /\ pc = "done"
    /\ ~again
    /\ again' = TRUE
    /\ pc' = "glob"
    /\ fsStart' = fs
    /\ site_dir' = <<>>
    /\ lineNo' = 1
    /\ pth_roots' = <<>>
    /\ rootIdx' = 1
    /\ walked' = {}
    /\ pyi_sources' = <<>>
    /\ entryIdx' = 1
    /\ rootPos' = 1
    /\ attempts' = <<>>
    /\ UNCHANGED <<fs, pthText>>

Next ==
    \/ LinkStep
    \/ GlobStep
    \/ PthStep
    \/ LineStep
    \/ IndexStep
    \/ SynthStep
    \/ Rerun

\* ------------------------------------------------------ initial states
SiteDir == <<"v", "lib", "python3", "site-packages">>
PthFile == Append(SiteDir, "_aspect.pth")

\* Lines of _aspect.pth, as lexemes.
UpToTop == <<"..", "/", "..", "/", "..", "/", "..", "/">>
LineA == UpToTop \o <<"r", "/", "A">>
LineB == <<"/", "r", "/", "B">>
LineBDots == <<" ">> \o UpToTop \o <<"r", "/", ".", "/", "A", "/", "/", "..", "/", "B", "/">>
LineR == UpToTop \o <<"r", " ">>
LineS == UpToTop \o <<"s">>
LineBlank == <<>>
LineSpaces == <<" ", " ">>
LineComment == <<"#", "c">>
LineIndented == <<" ", "#", "r">>
LineMissing == UpToTop \o <<"nope">>
LineFile == UpToTop \o <<"r", "/", "keep">>

PthTexts ==
    { <<LineA, LineB>>,
      <<LineB, LineComment, LineA>>,
      <<LineB, LineA, LineBlank, LineR>>,
      <<LineR, LineBDots, LineA>>,
      <<LineS, LineB>>,
      <<LineB, LineMissing, LineS>>,
      <<LineA, LineFile, LineA, LineBDots>>,
      <<LineMissing, LineIndented, LineFile, LineSpaces>>,
      <<>> }

\* What the environment home holds.
VenvKinds == {"bare", "nopth", "pthdir", "pth"}
Venv(kind) ==
    IF kind = "bare" THEN <<>>
    ELSE (<<"v", "lib">> :> DirEntry) @@ (<<"v", "lib", "python3">> :> DirEntry)
         @@ (SiteDir :> DirEntry)
         @@ (IF kind = "pth" THEN PthFile :> FileEntry
             ELSE IF kind = "pthdir" THEN PthFile :> DirEntry
             ELSE <<>>)

\* What is at the destination path before the driver runs.
DestKinds == {"absent", "file", "dir", "home", "other", "broken"}
DestEntry(kind) ==
    IF kind = "absent" THEN <<>>
    ELSE Dest :> (CASE kind = "file" -> FileEntry
                    [] kind = "dir" -> DirEntry
                    [] kind = "home" -> AbsLink(Home)
                    [] kind = "other" -> AbsLink(<<"r">>)
                    [] kind = "broken" -> AbsLink(<<"nope">>))

\* What is at a stub path.
StubKinds == {"none", "file", "dir", "live", "broken"}
At(path, kind) ==
    IF kind = "none" THEN <<>>
    ELSE path :> (CASE kind = "file" -> FileEntry
                    [] kind = "dir" -> DirEntry
                    [] kind = "live" -> RelLink(<<"..", "keep">>)
                    [] kind = "broken" -> RelLink(<<"nope">>))

Skeleton ==
    (<<>> :> DirEntry) @@ (Home :> DirEntry) @@ (<<"w">> :> DirEntry)
    @@ (<<"r">> :> DirEntry) @@ (<<"r", "A">> :> DirEntry)
    @@ (<<"r", "B">> :> DirEntry) @@ (<<"r", "keep">> :> FileEntry)
    @@ (<<"s">> :> AbsLink(<<"r", "A">>))

Init ==
    /\ \E dk \in DestKinds, vk \in VenvKinds,
          apy \in {"none", "file"}, apyi \in {"none", "file", "broken"},
          bpy \in {"none", "file"}, bpyi \in StubKinds,
          rpy \in {"none", "file"}, y \in {"none", "file"} :
          fs = Skeleton @@ DestEntry(dk) @@ Venv(vk)
               @@ At(<<"r", "A", "x.py">>, apy) @@ At(<<"r", "A", "x.pyi">>, apyi)
               @@ At(<<"r", "B", "x.py">>, bpy) @@ At(<<"r", "B", "x.pyi">>, bpyi)
               @@ At(<<"r", "x.py">>, rpy)
               @@ At(<<"r", "A", "y.pyi">>, y) @@ At(<<"r", "B", "y.py">>, y)
    /\ pthText \in (IF PthFile \in DOMAIN fs /\ fs[PthFile].kind = "file"
                    THEN PthTexts ELSE {<<>>})
    /\ fsStart = fs
    /\ pc = "link"
    /\ again = FALSE
    /\ site_dir = <<>>
    /\ lineNo = 1
    /\ pth_roots = <<>>
    /\ rootIdx = 1
    /\ walked = {}
    /\ pyi_sources = <<>>
    /\ entryIdx = 1
    /\ rootPos = 1
    /\ attempts = <<>>

Spec == Init /\ [][Next]_vars

\* ============================================================ claims
\* Where one hop from the symlink at place p leads: its target walked from
\* the directory that contains it, the last component not followed.
OneHop(f, p) ==
    Walk(f, IF f[p].abs THEN <<>> ELSE Parent(p), f[p].target, MaxHops, FALSE)

\* root had the sibling source file and nothing at the stub path when the
\* run began.
Lacked(root, rel) ==
    IsFile(fsStart, root \o ChopLast(rel)) /\ ~LExists(fsStart, root \o rel)

\* root holds a relative symlink at rel that leads to the stub at pyi_abs.
HoldsLinkTo(root, rel, pyi_abs) ==
    LET here == LStat(fs, root \o rel)
    IN /\ here.ok
       /\ fs[here.path].kind = "link"
       /\ ~fs[here.path].abs
       /\ OneHop(fs, here.path).ok
       /\ LStat(fs, pyi_abs).ok
       /\ OneHop(fs, here.path).path = LStat(fs, pyi_abs).path

\* C1: after a completed run, every root that had the source file and
\* nothing at the stub path holds a symlink there whose relative target,
\* resolved from the link's directory, reaches the indexed stub file.
C1_EveryLackingRootLinked ==
    pc = "done" =>
        \A i \in 1..Len(pyi_sources), j \in 1..Len(pth_roots) :
            Lacked(pth_roots[j], pyi_sources[i].rel)
                => HoldsLinkTo(pth_roots[j], pyi_sources[i].rel, pyi_sources[i].abs)

\* An entry the index-build pass takes for a stub at rel under root: a
\* name ending in .pyi that is there and is not a directory.
StubAt(f, root, rel) ==
    EndsWithPyi(Basename(rel)) /\ LExists(f, root \o rel) /\ ~IsDir(f, root \o rel)

\* The positions, in root order, of the roots under which the walk finds a
\* stub at rel.
WalkFinds(f, root, rel) ==
    /\ IsDir(f, root)
    /\ LET top == Stat(f, root).path
       IN /\ \A n \in 1..(Len(rel) - 1) :
                /\ top \o SubSeq(rel, 1, n) \in DOMAIN f
                /\ f[top \o SubSeq(rel, 1, n)].kind = "dir"
          /\ top \o rel \in DOMAIN f
          /\ ~IsDir(f, top \o rel)
          /\ EndsWithPyi(Basename(rel))
RootsWith(rel) == {j \in 1..Len(pth_roots) : WalkFinds(fsStart, pth_roots[j], rel)}
Least(S) == CHOOSE j \in S : \A k \in S : j <= k

\* C2: at every point of the index-build pass and after it, each relative
\* stub path of the index maps to the copy under the first root, in root
\* order, that has a stub at that path; no later root's copy replaces it.
C2_FirstRootWins ==
    \A i \in 1..Len(pyi_sources) :
        LET rel == pyi_sources[i].rel
            having == RootsWith(rel)
        IN /\ having # {}
           /\ pyi_sources[i].abs = pth_roots[Least(having)] \o rel

\* Two different stub files at the same relative path under two roots, the
\* index built.
C2_Witness ==
    /\ pc = "synth"
    /\ \E i \in 1..Len(pyi_sources) : \E j, k \in RootsWith(pyi_sources[i].rel) :
          /\ j < k
          /\ LStat(fsStart, pth_roots[j] \o pyi_sources[i].rel).path
               # LStat(fsStart, pth_roots[k] \o pyi_sources[i].rel).path

\* C3: a run of colocate_pyi_stubs on the filesystem a completed run left
\* changes nothing and does not raise.
C3_SecondRunIsNoOp ==
    again => (fs = fsStart /\ pc # "raised")

\* C4: a symlink creation is attempted only where no entry of any kind,
\* a broken symlink included, is at the stub path.
C4_AttemptOnlyWhereNothing ==
    \A i \in 1..Len(attempts) : ~attempts[i].taken

\* C5: a symlink creation happens for a root and a relative stub path only
\* if some root has a stub file at that relative path and the root itself
\* has a file at the sibling source path; every entry added to the
\* filesystem comes from such a creation, so nothing is created when no
\* root has a stub.
C5_OnlyForStubAndSource ==
    /\ \A i \in 1..Len(attempts) :
          /\ \E j \in 1..Len(pth_roots) :
                StubAt(fsStart, pth_roots[j], attempts[i].rel)
          /\ IsFile(fsStart, attempts[i].root \o ChopLast(attempts[i].rel))
    /\ \A p \in DOMAIN fs \ DOMAIN fsStart :
          \E i \in 1..Len(attempts) :
              /\ attempts[i].ok
              /\ Place(fs, attempts[i].root \o attempts[i].rel).path = p

\* A completed run that linked a stub into one root and passed over a root
\* with neither the source file nor the stub.
C5_Witness ==
    /\ pc = "done"
    /\ \E i \in 1..Len(attempts) :
          /\ attempts[i].ok
          /\ \E j \in 1..Len(pth_roots) :
                /\ ~IsFile(fsStart, pth_roots[j] \o ChopLast(attempts[i].rel))
                /\ ~LExists(fs, pth_roots[j] \o attempts[i].rel)

\* C6: the environment home has no site-packages directory, or that
\* directory has no _aspect.pth file, or no line of the file resolves to an
\* existing directory.
NothingConfigured ==
    LET sds == Glob(fsStart, Home)
    IN \/ sds = {}
       \/ \A sd \in sds : ~IsFile(fsStart, Append(sd, "_aspect.pth"))
       \/ \A sd \in sds : \A n \in 1..Len(pthText) :
             \/ SkipLine(Strip(pthText[n]))
             \/ ~IsDir(fsStart, Normpath(Join(sd, Strip(pthText[n]))))

\* C6: with nothing configured, colocate_pyi_stubs never raises, never
\* reaches its two passes and leaves the filesystem as it found it.
C6_NothingConfiguredNoOp ==
    (NothingConfigured /\ pc # "link" /\ pc # "link_failed")
        => /\ pc \in {"glob", "pth", "lines", "done"}
           /\ fs = fsStart
           /\ attempts = <<>>

\* The run returned although the file has lines and a root lacks a stub
\* another place could supply.
C6_Witness ==
    /\ pc = "done"
    /\ NothingConfigured
    /\ Glob(fsStart, Home) # {}
    /\ lineNo > Len(pthText)
    /\ Len(pthText) >= 2

\* C7: once the link step is over, the destination is a symlink whose
\* target is the environment home, whatever was there before.
C7_DestLinksHome ==
    pc # "link" =>
        /\ pc # "link_failed"
        /\ Dest \in DOMAIN fs
        /\ fs[Dest] = AbsLink(Home)

\* The resolved form of line n of the file, and the lines that name a root:
\* non-blank, not a comment, resolving to an existing directory.
Resolved(n) == Normpath(Join(site_dir, Strip(pthText[n])))
RootLines(upto) ==
    {n \in 1..upto : /\ Strip(pthText[n]) # <<>>
                     /\ Head(Strip(pthText[n])) # "#"
                     /\ IsDir(fsStart, Resolved(n))}
NthOf(S, k) == CHOOSE n \in S : Cardinality({m \in S : m < n}) = k - 1

\* C8: the root list is exactly the resolved forms of the lines read so far
\* that name a root, in the order of the lines; when the file is read to
\* its end that is the root list the passes use.
C8_RootsAreTheLinesInOrder ==
    pc \in {"lines", "index", "synth", "done", "raised"} =>
        LET S == RootLines(lineNo - 1)
        IN /\ Len(pth_roots) = Cardinality(S)
           /\ \A k \in 1..Len(pth_roots) : pth_roots[k] = Resolved(NthOf(S, k))

\* The file read to its end, with lines dropped and at least two different
\* roots kept.
C8_Witness ==
    /\ pc = "index"
    /\ Len(pth_roots) >= 2
    /\ Len(pthText) > Len(pth_roots)
    /\ pth_roots[1] # pth_roots[2]

\* C9: in every state of a run, completed or aborted, every entry of the
\* starting filesystem is still there unchanged, and every other entry is a
\* symlink at <root>/<relative stub path> for a root of the root list and a
\* relative path of the index.
C9_OnlySymlinksAdded ==
    /\ \A p \in DOMAIN fsStart : p \in DOMAIN fs /\ fs[p] = fsStart[p]
    /\ \A p \in DOMAIN fs \ DOMAIN fsStart :
          /\ fs[p].kind = "link"
          /\ \E j \in 1..Len(pth_roots), i \in 1..Len(pyi_sources) :
                Place(fs, pth_roots[j] \o pyi_sources[i].rel).path = p

\* A run that added a symlink and then aborted on an error.
C9_Witness ==
    /\ pc = "raised"
    /\ DOMAIN fs # DOMAIN fsStart

\* The placements that follow position (e, r) in iteration order.
Later(e, r) ==
    {q \in (1..Len(pyi_sources)) \X (1..Len(pth_roots)) :
        q[1] > e \/ (q[1] = e /\ q[2] > r)}

\* C10: a failed symlink creation is the last thing a run attempts: the run
\* has ended with the error, and every attempt before it succeeded.
C10_FirstFailureEndsRun ==
    \A i \in 1..Len(attempts) :
        ~attempts[i].ok => (i = Len(attempts) /\ pc = "raised")

\* A run aborted at a failure while a later placement was still due.
C10_Witness ==
    /\ pc = "raised"
    /\ \E q \in Later(entryIdx, rootPos) :
          NeedsStub(fs, pth_roots[q[2]] \o ChopLast(pyi_sources[q[1]].rel),
                    pth_roots[q[2]] \o pyi_sources[q[1]].rel)

====
